---- MODULE Spec2Model ----
(***************************************************************************)
(* Model of the signaling relay of server.js: the in-memory room registry  *)
(* (rooms), the Socket.IO transport rooms the handlers drive (socket.join, *)
(* socket.leave, socket.rooms, io.to, socket.to) and the four handlers     *)
(* join, signal, leave and disconnecting.  Each handler runs to            *)
(* completion (Node's single-threaded event loop), so each is one action.  *)
(***************************************************************************)
EXTENDS FiniteSets, Integers, Sequences, TLC

\* ---------------------------------------------------------------- bounds

\* Number of inbound events (connections included) handled in one run.
MaxEvents == 6

\* Number of those events that may be signal events (a signal event leaves
\* the registry and the transport rooms as they are).
MaxSignals == 1

\* Connection identifiers (socket.id) of the clients that may connect, in
\* the order in which they connect (the ids are interchangeable).
ConnOrder == <<"a", "b", "c">>

Conns == {ConnOrder[i] : i \in DOMAIN ConnOrder}

\* Room names that are not connection identifiers.
Names == {"r1", "r2"}

\* Room identifiers a client may send: any non-empty string, which includes
\* the strings that are connection identifiers.
RoomIds == Names \cup Conns

\* The falsy value of an event field (undefined, null, "").
None == ""

\* Payloads of a signal event; None is a missing payload.
Data == {"X"}

VARIABLES
    status,        \* status[c]: "new", "connected" or "closed"
    rooms,         \* the registry: a map roomId -> set of socket ids
    socketRooms,   \* socketRooms[c]: socket.rooms of c (the adapter's sids)
    exceptByRoom,  \* how the adapter reads the exclusion of socket.to
    last,          \* the event handled last, with the state it started from
    out,           \* the messages delivered by the handler that ran last
    nev,           \* number of events handled
    joined,        \* joined[c]: the rooms c asked to join and has not left
    emptied,       \* the rooms emptied by a leave or disconnect, not joined since
    nsig,          \* number of signal events handled
    crashed,       \* a handler threw: the process is gone
    left,          \* left[c]: the rooms c left as a member and has not rejoined
    client,        \* client[c]: the state of the page of connection c (webrtc.js)
    toServer,      \* toServer[c]: the events c emitted, not yet handled
    inbox          \* inbox[c]: the messages delivered to c, not yet handled

\* The relay and what is observed of it.
svars == <<status, rooms, socketRooms, exceptByRoom, last, out, joined, emptied,
           crashed, left>>

\* The pages and the messages in flight.
cvars == <<client, toServer, inbox>>

vars == <<svars, nev, nsig, cvars>>

\* ------------------------------------------------------- the rooms Map

\* rooms.has(roomId)
Has(m, r) == r \in DOMAIN m

\* rooms.set(roomId, room), also the effect of room.add / room.delete on the
\* Set object the map holds.
MapSet(m, r, s) == [x \in (DOMAIN m) \cup {r} |-> IF x = r THEN s ELSE m[x]]

\* rooms.delete(roomId)
MapDelete(m, r) == [x \in (DOMAIN m) \ {r} |-> m[x]]

\* The members the registry lists for r (empty when the room is absent).
Members(m, r) == IF Has(m, r) THEN m[r] ELSE {}

\* ------------------------------------------------------- the transport

\* The sockets in transport room r: the adapter's rooms.get(r).
InRoom(sr, r) == {s \in Conns : r \in sr[s]}

\* socket.join(roomId)
SocketJoin(sr, c, r) == [sr EXCEPT ![c] = @ \cup {r}]

\* Mutant of SocketLeave: the handler forgets socket.leave.
SocketLeaveForgotten(sr, c, r) == sr

\* socket.leave(roomId)
SocketLeave(sr, c, r) == [sr EXCEPT ![c] = @ \ {r}]

\* The sockets a broadcast of socket c skips.  socket.to() excludes
\* socket.id: adapters that read the exclusion as a room skip every socket
\* in the transport room named c, the others skip socket c only.
Except(sr, c) == IF exceptByRoom THEN InRoom(sr, c) ELSE {c}

\* socket.to(roomId): the receivers of a broadcast of c to room r.
SocketTo(sr, c, r) == InRoom(sr, r) \ Except(sr, c)

\* io.to(targetId): the receivers of a server broadcast to room t.
IoTo(sr, t) == InRoom(sr, t)

\* ------------------------------------------------------------ messages

Msg(to, ev, via, id, data, peers) ==
    [to |-> to, ev |-> ev, via |-> via, id |-> id, data |-> data, peers |-> peers]

\* emit('peer-joined', { socketId }) to the receivers rs of channel via
PeerJoined(rs, via, c) == {Msg(s, "peer-joined", via, c, None, {}) : s \in rs}

\* emit('peer-left', { socketId })
PeerLeft(rs, via, c) == {Msg(s, "peer-left", via, c, None, {}) : s \in rs}

\* emit('signal', { from, data })
Signal(rs, via, c, data) == {Msg(s, "signal", via, c, data, {}) : s \in rs}

\* socket.emit('room-info', { peers })
RoomInfo(c, peers) == {Msg(c, "room-info", c, None, None, peers)}

\* The record of the event being handled, with the registry it starts from.
Event(kind, c, r, t, d) ==
    [kind |-> kind, conn |-> c, roomId |-> r, targetId |-> t, data |-> d,
     rooms |-> rooms, emptied |-> emptied, left |-> left]

\* ---------------------------------------------------------------- Init

\* The relay alone: no page is modelled, the events come from any client.
NoClients ==
    /\ client = <<>>
    /\ toServer = <<>>
    /\ inbox = <<>>

\* The relay after server.js has run: an empty registry, no connection.
RelayInit ==
    /\ status = [c \in Conns |-> "new"]
    /\ rooms = <<>>
    /\ socketRooms = [c \in Conns |-> {}]
    /\ exceptByRoom \in BOOLEAN
    /\ joined = [c \in Conns |-> {}]
    /\ emptied = {}
    /\ left = [c \in Conns |-> {}]
    /\ crashed = FALSE
    /\ nsig = 0
    /\ last = Event("start", None, None, None, None)
    /\ out = {}
    /\ nev = 0

Init == NoClients /\ RelayInit

\* ------------------------------------------------------------ handlers

\* Mutant of Falsy: the guard on the event's fields is missing.
FalsyNever(x) == FALSE

\* !roomId, !data, and targetId read as a condition.
Falsy(x) == x = None

\* io.on('connection'): the transport puts the socket in the room named by
\* its own id.
OnConnection(c) ==
    /\ ~crashed
    /\ status[c] = "new"
    /\ \A i, j \in DOMAIN ConnOrder :
          (i < j /\ ConnOrder[j] = c) => status[ConnOrder[i]] # "new"
    /\ status' = [status EXCEPT ![c] = "connected"]
    /\ socketRooms' = [socketRooms EXCEPT ![c] = {c}]
    /\ last' = Event("connect", c, None, None, None)
    /\ out' = {}
    /\ UNCHANGED <<rooms, exceptByRoom, joined, emptied, crashed, left>>

\* Mutant of JoinRooms: a join by a member starts the room anew.
JoinRoomsFresh(m, c, r) ==
    IF c \in Members(m, r) THEN MapSet(m, r, {c}) ELSE MapSet(m, r, Members(m, r) \cup {c})

\* The registry after room.add(socket.id) on the room found or created.
JoinRooms(m, c, r) == MapSet(m, r, Members(m, r) \cup {c})

\* Mutant of ExistingPeers: the filter on socket.id is missing.
ExistingPeersUnfiltered(m, c, r) == m[r]

\* existingPeers: the members of the room other than the socket itself.
ExistingPeers(m, c, r) == m[r] \ {c}

\* socket.on('join')
OnJoin(c, r) ==
    /\ ~crashed
    /\ status[c] = "connected"
    /\ last' = Event("join", c, r, None, None)
    /\ UNCHANGED <<status, exceptByRoom, crashed>>
    /\ IF Falsy(r)
       THEN /\ out' = {}
            /\ UNCHANGED <<rooms, socketRooms, joined, emptied, left>>
       ELSE /\ socketRooms' = SocketJoin(socketRooms, c, r)
            /\ rooms' = JoinRooms(rooms, c, r)
            /\ out' = PeerJoined(SocketTo(socketRooms', c, r), r, c)
                      \cup RoomInfo(c, ExistingPeers(rooms', c, r))
            /\ joined' = [joined EXCEPT ![c] = @ \cup {r}]
            /\ emptied' = emptied \ {r}
            /\ left' = [left EXCEPT ![c] = @ \ {r}]

\* socket.on('signal'): the receivers of the relayed message.
SignalTo(sr, c, r, t) == IF ~Falsy(t) THEN IoTo(sr, t) ELSE SocketTo(sr, c, r)

\* Mutant of SignalFrom: the relayed message names the target as its sender.
SignalFromTarget(c, t) == t

\* from: socket.id
SignalFrom(c, t) == c

\* Mutant of SignalRooms: the signal handler adds the sender to the room.
SignalRoomsJoining(m, c, r) == IF r = None THEN m ELSE JoinRooms(m, c, r)

\* The registry after the signal handler, which does not touch rooms.
SignalRooms(m, c, r) == m

\* socket.on('signal') with an envelope object
OnSignal(c, r, t, d) ==
    /\ ~crashed
    /\ status[c] = "connected"
    /\ last' = Event("signal", c, r, t, d)
    /\ rooms' = SignalRooms(rooms, c, r)
    /\ UNCHANGED <<status, socketRooms, exceptByRoom, joined, emptied, crashed, left>>
    /\ IF Falsy(r) \/ Falsy(d)
       THEN out' = {}
       ELSE out' = Signal(SignalTo(socketRooms, c, r, t),
                          IF ~Falsy(t) THEN t ELSE r, SignalFrom(c, t), d)

\* socket.on('signal') with no envelope (undefined or null): destructuring
\* the parameter throws a TypeError in the listener, nothing catches it and
\* the process ends.
OnSignalNoEnvelope(c) ==
    /\ ~crashed
    /\ status[c] = "connected"
    /\ last' = Event("signal-no-envelope", c, None, None, None)
    /\ crashed' = TRUE
    /\ out' = {}
    /\ UNCHANGED <<status, rooms, socketRooms, exceptByRoom, joined, emptied, left>>

\* Mutant of LeaveRooms: the emptied room is not deleted.
LeaveRoomsKeepEmpty(m, c, r) == MapSet(m, r, m[r] \ {c})

\* The registry after room.delete(socket.id) and, when the room is left
\* empty, rooms.delete(roomId).
LeaveRooms(m, c, r) ==
    IF m[r] \ {c} = {} THEN MapDelete(m, r) ELSE MapSet(m, r, m[r] \ {c})

\* socket.on('leave')
OnLeave(c, r) ==
    /\ ~crashed
    /\ status[c] = "connected"
    /\ last' = Event("leave", c, r, None, None)
    /\ UNCHANGED <<status, exceptByRoom, crashed>>
    /\ joined' = [joined EXCEPT ![c] = @ \ {r}]
    /\ left' = IF c \in Members(rooms, r) THEN [left EXCEPT ![c] = @ \cup {r}] ELSE left
    /\ IF Falsy(r) \/ ~Has(rooms, r)
       THEN /\ out' = {}
            /\ UNCHANGED <<rooms, socketRooms, emptied>>
       ELSE /\ rooms' = LeaveRooms(rooms, c, r)
            /\ socketRooms' = SocketLeave(socketRooms, c, r)
            /\ out' = IF Has(rooms', r)
                      THEN PeerLeft(SocketTo(socketRooms', c, r), r, c)
                      ELSE {}
            /\ emptied' = IF Has(rooms', r) THEN emptied ELSE emptied \cup {r}

\* The rooms the disconnecting loop works on: socket.rooms without the
\* socket's own id, as far as the registry has them.
RoomsForSocket(m, sr, c) == {r \in sr[c] \ {c} : Has(m, r)}

\* The registry after the disconnecting loop.  The iterations touch
\* different rooms, so their order does not matter.
DisconnectRooms(m, sr, c) ==
    LET touched == RoomsForSocket(m, sr, c)
        gone == {r \in touched : m[r] \ {c} = {}}
    IN  [r \in (DOMAIN m) \ gone |-> IF r \in touched THEN m[r] \ {c} ELSE m[r]]

\* socket.on('disconnecting'), followed by the transport's own cleanup
\* (the socket leaves all its rooms and is gone).
OnDisconnecting(c) ==
    /\ ~crashed
    /\ status[c] = "connected"
    /\ last' = Event("disconnect", c, None, None, None)
    /\ rooms' = DisconnectRooms(rooms, socketRooms, c)
    /\ out' = UNION {PeerLeft(SocketTo(socketRooms, c, r), r, c) :
                       r \in {x \in RoomsForSocket(rooms, socketRooms, c) :
                                Has(rooms', x)}}
    /\ socketRooms' = [socketRooms EXCEPT ![c] = {}]
    /\ status' = [status EXCEPT ![c] = "closed"]
    /\ joined' = [joined EXCEPT ![c] = {}]
    /\ emptied' = emptied \cup ((DOMAIN rooms) \ (DOMAIN rooms'))
    /\ UNCHANGED <<exceptByRoom, crashed, left>>

\* ------------------------------------------------------------- actions

\* One more event is handled, within the bounds of the run.
Counted(signals) ==
    /\ nev < MaxEvents
    /\ nsig + signals <= MaxSignals
    /\ nev' = nev + 1
    /\ nsig' = nsig + signals
    /\ UNCHANGED cvars

Connect(c) == Counted(0) /\ OnConnection(c)

Join(c, r) == Counted(0) /\ OnJoin(c, r)

SignalEv(c, r, t, d) == Counted(1) /\ OnSignal(c, r, t, d)

SignalNoEnvelope(c) == Counted(0) /\ OnSignalNoEnvelope(c)

Leave(c, r) == Counted(0) /\ OnLeave(c, r)

Disconnect(c) == Counted(0) /\ OnDisconnecting(c)

\* The strings a client can send as a room or target id: room names and the
\* ids of connections made so far (socket ids are random and not known
\* before the connection exists).
Known == Names \cup {d \in Conns : status[d] # "new"}

\* The room ids tried in a signal event.  With a targetId the handler only
\* tests roomId for being falsy, so the room names stand for all room ids
\* (rooms the sender is in, is not in, and rooms that do not exist).
SignalRoomIds(t) == IF t = None THEN Known \cup {None} ELSE Names \cup {None}

Next ==
    \/ \E c \in Conns : Connect(c)
    \/ \E c \in Conns, r \in Known \cup {None} : Join(c, r)
    \/ \E c \in Conns, t \in Known \cup {None} :
          \E r \in SignalRoomIds(t), d \in Data \cup {None} : SignalEv(c, r, t, d)
    \/ \E c \in Conns, r \in Known \cup {None} : Leave(c, r)
    \/ \E c \in Conns : Disconnect(c)
    \/ \E c \in Conns : SignalNoEnvelope(c)

Spec == Init /\ [][Next]_vars

\* ------------------------------------------------- the pages (webrtc.js)

\* Number of ICE candidates a page reports.
MaxCandidates == 1

\* Number of times a page calls leaveRoom while it is in a room.
MaxLeaves == 1

\* The connections that run the page in a call.
Callers == {ConnOrder[1], ConnOrder[2]}

\* webrtc.js before joinRoom: no socket, no room, no local stream, no peer
\* connection.
\* tasks holds the async handlers that are waiting at an await; seen, owed,
\* leaves (the leaveRoom calls made in a room), closes (the peer connections
\* leaveRoom closed), got, peers, offers and candidates record what the
\* page received and did.
ClientInit ==
    /\ client = [c \in Conns |->
                   [socket |-> FALSE, currentRoomId |-> None,
                    localStream |-> FALSE, peerConnection |-> FALSE,
                    localDescription |-> None, remoteDescription |-> None,
                    tasks |-> {}, seen |-> 0, owed |-> 0, leaves |-> 0, closes |-> 0,
                    got |-> {}, peers |-> <<>>, offers |-> 0,
                    candidates |-> 0]]
    /\ toServer = [c \in Conns |-> <<>>]
    /\ inbox = [c \in Conns |-> <<>>]

CallInit == ClientInit /\ RelayInit

\* A set of messages in some order.
RECURSIVE SeqOf(_)
SeqOf(S) == IF S = {} THEN <<>>
            ELSE LET m == CHOOSE x \in S : TRUE IN <<m>> \o SeqOf(S \ {m})

\* Array.from(...) of a room-info message: the peers as a list.  The
\* order of a list of two or more is the order of the room's Set, which
\* the registry of this model does not keep.
Listed(m) == IF m.ev = "room-info" THEN [m EXCEPT !.peers = SeqOf(m.peers)] ELSE m

\* The transport hands each emitted message to its receiver, in order.
Deliver(inb, msgs) ==
    [c \in Conns |-> inb[c] \o SeqOf({Listed(m) : m \in {x \in msgs : x.to = c}})]

\* An event a page emits to the relay.
Emit(ev, r, t, d) == [ev |-> ev, roomId |-> r, targetId |-> t, data |-> d]

\* Mutant of SendSignal: the guard on the current room is missing.
SendSignalUnguarded(q, room, t, d) == Append(q, Emit("signal", room, t, d))

\* sendSignal({ targetId, data }): nothing is sent without a current room.
SendSignal(q, room, t, d) ==
    IF room = None THEN q ELSE Append(q, Emit("signal", room, t, d))

\* What a page emitted in the step: the events appended to its queue.
Emitted(c) ==
    IF Len(toServer'[c]) > Len(toServer[c])
    THEN {toServer'[c][i] : i \in (Len(toServer[c]) + 1)..Len(toServer'[c])}
    ELSE {}

\* An async handler of page c: which message it handles (id counts the
\* messages the page has handled), the await it waits at, the sender of
\* the signal (or the peer to call), the data's type, and the page's room
\* and the number of peer connections leaveRoom had closed when the message
\* arrived.  rd is
\* the remote description at the time addIceCandidate was called.
Task(id, h, stage, peer, type, room, epoch, rd) ==
    [id |-> id, h |-> h, stage |-> stage, peer |-> peer, type |-> type,
     room |-> room, epoch |-> epoch, rd |-> rd]

\* joinRoom(): the socket is set up if there is none, the local stream
\* acquired, the room id kept and 'join' emitted (the emit waits for the
\* connection).  The join button is disabled while the page is in a room.
JoinRoom(c, r) ==
    /\ client[c].currentRoomId = None
    /\ client' = [client EXCEPT ![c].currentRoomId = r, ![c].socket = TRUE,
                                ![c].localStream = TRUE, ![c].owed = @ + 1]
    /\ toServer' = [toServer EXCEPT ![c] = Append(@, Emit("join", r, None, None))]
    /\ UNCHANGED <<svars, nev, nsig, inbox>>

\* The socket made by setupSocketIfNeeded connects.
SocketConnect(c) ==
    /\ client[c].socket
    /\ OnConnection(c)
    /\ UNCHANGED <<cvars, nev, nsig>>

\* The relay handles the next 'join' of c and its messages are delivered.
ServerJoin(c) ==
    /\ toServer[c] # <<>>
    /\ Head(toServer[c]).ev = "join"
    /\ OnJoin(c, Head(toServer[c]).roomId)
    /\ toServer' = [toServer EXCEPT ![c] = Tail(@)]
    /\ inbox' = Deliver(inbox, out')
    /\ UNCHANGED <<client, nev, nsig>>

\* The relay handles the next 'signal' of c and its messages are delivered.
ServerSignal(c) ==
    /\ toServer[c] # <<>>
    /\ Head(toServer[c]).ev = "signal"
    /\ LET e == Head(toServer[c]) IN OnSignal(c, e.roomId, e.targetId, e.data)
    /\ toServer' = [toServer EXCEPT ![c] = Tail(@)]
    /\ inbox' = Deliver(inbox, out')
    /\ UNCHANGED <<client, nev, nsig>>

\* Mutant of ShouldCall: the page calls although it has a peer connection.
ShouldCallAgain(peers, hasPc) == Len(peers) > 0

\* peers && peers.length > 0 && !peerConnection
ShouldCall(peers, hasPc) == Len(peers) > 0 /\ ~hasPc

\* peers[0]
FirstPeer(peers) == Head(peers)

\* The await a handler stops at first when it has to make the peer
\* connection: 'await ensureLocalStream()' inside ensurePeerConnection
\* yields to other events only when there is no local stream; with a local
\* stream the handler runs on to its first peer connection operation.
AfterEnsure(hasStream, next) == IF hasStream THEN next ELSE "ensure"

\* socket.on('room-info'): with peers and no peer connection the page
\* becomes the caller; ensurePeerConnection assigns peerConnection before
\* its first await, makeOffer then awaits createOffer.
OnRoomInfo(c, m) ==
    /\ LET p == client[c]
           call == ShouldCall(m.peers, p.peerConnection)
           t == Task(p.seen, "room-info", AfterEnsure(p.localStream, "offer"),
                     IF call THEN FirstPeer(m.peers) ELSE None, "offer",
                     p.currentRoomId, p.closes, None)
       IN  client' = [client EXCEPT
               ![c].peers = m.peers,
               ![c].seen = @ + 1,
               ![c].owed = IF @ > 0 THEN @ - 1 ELSE 0,
               ![c].peerConnection = @ \/ call,
               ![c].tasks = IF call THEN @ \cup {t} ELSE @]
    /\ UNCHANGED <<svars, nev, nsig, toServer>>

\* The page handles the room-info delivered to it next.
RecvRoomInfo(c) ==
    /\ inbox[c] # <<>>
    /\ Head(inbox[c]).ev = "room-info"
    /\ OnRoomInfo(c, Head(inbox[c]))
    /\ inbox' = [inbox EXCEPT ![c] = Tail(@)]

\* socket.on('peer-joined') and socket.on('peer-left'): the page logs the
\* event and updates its display only.
RecvPeerEvent(c) ==
    /\ inbox[c] # <<>>
    /\ Head(inbox[c]).ev \in {"peer-joined", "peer-left"}
    /\ inbox' = [inbox EXCEPT ![c] = Tail(@)]
    /\ UNCHANGED <<svars, nev, nsig, client, toServer>>

\* The peer connection operation a signal handler awaits first.
SignalStage(type) == IF type = "candidate" THEN "add" ELSE "srd"

\* The handler t at the await named stage; a handler that calls
\* addIceCandidate does so with the remote description rd.
AtStage(t, stage, rd) ==
    [t EXCEPT !.stage = stage, !.rd = IF stage = "add" THEN rd ELSE t.rd]

\* socket.on('signal'): without a peer connection the handler first awaits
\* ensurePeerConnection, else it goes on to the branch of the data's type.
OnSignalMessage(c, m) ==
    /\ LET p == client[c]
           stage == IF p.peerConnection THEN SignalStage(m.data)
                    ELSE AfterEnsure(p.localStream, SignalStage(m.data))
           t == Task(p.seen, "signal", "start", m.id, m.data,
                     p.currentRoomId, p.closes, None)
       IN  client' = [client EXCEPT
               ![c].got = @ \cup {<<m.data, m.id>>},
               ![c].seen = @ + 1,
               ![c].peerConnection = TRUE,
               ![c].tasks = @ \cup {AtStage(t, stage, p.remoteDescription)}]
    /\ UNCHANGED <<svars, nev, nsig, toServer>>

\* The page handles the signal delivered to it next.
RecvSignal(c) ==
    /\ inbox[c] # <<>>
    /\ Head(inbox[c]).ev = "signal"
    /\ OnSignalMessage(c, Head(inbox[c]))
    /\ inbox' = [inbox EXCEPT ![c] = Tail(@)]

\* 'await ensureLocalStream()' returns in ensurePeerConnection, which adds
\* the tracks to peerConnection: a TypeError if leaveRoom has set it to
\* null, else the handler goes on to its peer connection operation.
AwaitEnsure(c, t) ==
    /\ t.stage = "ensure"
    /\ LET p == client[c]
           next == IF t.h = "room-info" THEN "offer" ELSE SignalStage(t.type)
       IN  client' = [client EXCEPT
               ![c].localStream = TRUE,
               ![c].tasks = IF p.peerConnection
                            THEN (@ \ {t}) \cup {AtStage(t, next, p.remoteDescription)}
                            ELSE @ \ {t}]
    /\ UNCHANGED <<svars, nev, nsig, toServer, inbox>>

\* makeOffer(targetId): createOffer, setLocalDescription, sendSignal.
MakeOffer(c, t) ==
    /\ t.h = "room-info" /\ t.stage = "offer"
    /\ LET p == client[c] IN
       /\ client' = [client EXCEPT
              ![c].tasks = @ \ {t},
              ![c].localDescription = "offer",
              ![c].offers = IF p.currentRoomId = None THEN @ ELSE @ + 1]
       /\ toServer' = [toServer EXCEPT ![c] =
                         SendSignal(@, p.currentRoomId, t.peer, "offer")]
    /\ UNCHANGED <<svars, nev, nsig, inbox>>

\* Mutant of Answers: the page answers an answer too.
AnswersDescriptions(type) == type \in {"offer", "answer"}

\* if (data.type === 'offer')
Answers(type) == type = "offer"

\* await peerConnection.setRemoteDescription(data) of an offer or an
\* answer returns; for an offer createAnswer follows.
SetRemote(c, t) ==
    /\ t.h = "signal" /\ t.stage = "srd"
    /\ client' = [client EXCEPT
           ![c].remoteDescription = t.type,
           ![c].tasks = IF Answers(t.type)
                        THEN (@ \ {t}) \cup {AtStage(t, "answer", None)}
                        ELSE @ \ {t}]
    /\ UNCHANGED <<svars, nev, nsig, toServer, inbox>>

\* Mutant of AnswerTarget: the answer is addressed to the page's own socket.
AnswerTargetSelf(c, from) == c

\* sendSignal({ targetId: from, ... }): the answer goes to the offer's sender.
AnswerTarget(c, from) == from

\* createAnswer, setLocalDescription, sendSignal of the answer.
SendAnswer(c, t) ==
    /\ t.h = "signal" /\ t.stage = "answer"
    /\ LET p == client[c] IN
       /\ client' = [client EXCEPT
              ![c].tasks = @ \ {t},
              ![c].localDescription = "answer"]
       /\ toServer' = [toServer EXCEPT ![c] =
                         SendSignal(@, p.currentRoomId, AnswerTarget(c, t.peer), "answer")]
    /\ UNCHANGED <<svars, nev, nsig, inbox>>

\* await peerConnection.addIceCandidate(...) returns or throws; the error
\* is caught.
AddIceCandidate(c, t) ==
    /\ t.h = "signal" /\ t.stage = "add"
    /\ client' = [client EXCEPT
           ![c].tasks = @ \ {t}]
    /\ UNCHANGED <<svars, nev, nsig, toServer, inbox>>

\* peerConnection.onicecandidate: once a local description is set the
\* browser reports candidates, which go to the room with no targetId.
IceCandidate(c) ==
    /\ client[c].peerConnection
    /\ client[c].localDescription # None
    /\ client[c].currentRoomId # None
    /\ client[c].candidates < MaxCandidates
    /\ client' = [client EXCEPT ![c].candidates = @ + 1]
    /\ toServer' = [toServer EXCEPT ![c] =
                      Append(@, Emit("signal", client[c].currentRoomId, None, "candidate"))]
    /\ UNCHANGED <<svars, nev, nsig, inbox>>

\* leaveRoom(): 'leave' is emitted if there is a current room; the peer
\* connection is closed and set to null, the local stream stopped and set
\* to null, the current room cleared.  The operations pending on the closed
\* peer connection never return, so the handlers awaiting them stall.
LeaveRoom(c) ==
    /\ client[c].currentRoomId = None \/ client[c].leaves < MaxLeaves
    /\ LET p == client[c]
           stalled == {t \in p.tasks : t.stage # "ensure"}
       IN
       /\ client' = [client EXCEPT
              ![c].currentRoomId = None,
              ![c].peerConnection = FALSE,
              ![c].localDescription = None,
              ![c].remoteDescription = None,
              ![c].localStream = FALSE,
              ![c].leaves = IF p.currentRoomId # None THEN @ + 1 ELSE @,
              ![c].closes = IF p.peerConnection THEN @ + 1 ELSE @,
              ![c].tasks = @ \ stalled]
       /\ toServer' = [toServer EXCEPT ![c] =
              IF p.socket /\ p.currentRoomId # None
              THEN Append(@, Emit("leave", p.currentRoomId, None, None))
              ELSE @]
    /\ UNCHANGED <<svars, nev, nsig, inbox>>

\* What the transport and the event loops do on their own.
Progress ==
    \/ \E c \in Callers : SocketConnect(c)
    \/ \E c \in Callers : ServerJoin(c)
    \/ \E c \in Callers : ServerSignal(c)
    \/ \E c \in Callers : RecvRoomInfo(c)
    \/ \E c \in Callers : RecvPeerEvent(c)
    \/ \E c \in Callers : RecvSignal(c)
    \/ \E c \in Callers : \E t \in client[c].tasks : MakeOffer(c, t)
    \/ \E c \in Callers : \E t \in client[c].tasks : SetRemote(c, t)
    \/ \E c \in Callers : \E t \in client[c].tasks : SendAnswer(c, t)
    \/ \E c \in Callers : \E t \in client[c].tasks : AddIceCandidate(c, t)

CallNext ==
    \/ \E c \in Callers, r \in Names : JoinRoom(c, r)
    \/ \E c \in Callers : IceCandidate(c)
    \/ Progress

\* Two pages that join rooms and never leave: connected sockets deliver
\* every message and every pending handler runs on.  Their local stream is
\* there from joinRoom on, so no handler waits in ensurePeerConnection.
CallSpec == CallInit /\ [][CallNext]_vars /\ WF_vars(Progress)

\* Number of messages delivered to the page under study.
MaxMessages == 2

\* The page under study; the relay and the other clients are its
\* environment.
Page == ConnOrder[1]

\* The peers lists a room-info of the relay carries here: none, one peer,
\* two peers.
PeerLists == {<<>>, <<ConnOrder[2]>>, <<ConnOrder[3], ConnOrder[2]>>}

\* The clients whose signals reach the page.
Senders == {ConnOrder[3]}

\* The data of the signals the pages send.
SignalTypes == {"offer", "answer", "candidate"}

\* The rooms the page may join next: the names are interchangeable, so
\* its first room is one fixed name.
RoomsToJoin(c) == IF client[c].socket THEN Names ELSE {CHOOSE r \in Names : TRUE}

\* The relay delivers a message to the page, which handles it: the
\* room-info of a join the page has emitted, or a signal another client
\* had the relay send it (with the page's socket id as targetId, or to a
\* room the page is in).  peer-joined and peer-left change nothing in the
\* page.  The events the page emitted stay in toServer.
RelayDelivers(c, m) ==
    /\ client[c].socket
    /\ client[c].seen < MaxMessages
    /\ IF m.ev = "room-info"
       THEN client[c].owed > 0 /\ OnRoomInfo(c, m)
       ELSE OnSignalMessage(c, m)
    /\ UNCHANGED inbox

\* One page that joins rooms, leaves them and joins again, with every
\* message the relay may deliver to it, at any time.
PageNext ==
    \/ \E r \in RoomsToJoin(Page) : JoinRoom(Page, r)
    \/ LeaveRoom(Page)
    \/ \E ps \in PeerLists : RelayDelivers(Page, Msg(Page, "room-info", Page, None, None, ps))
    \/ \E x \in Senders, d \in SignalTypes :
          RelayDelivers(Page, Msg(Page, "signal", Page, x, d, {}))
    \/ \E t \in client[Page].tasks : AwaitEnsure(Page, t)
    \/ \E t \in client[Page].tasks : MakeOffer(Page, t)
    \/ \E t \in client[Page].tasks : SetRemote(Page, t)
    \/ \E t \in client[Page].tasks : SendAnswer(Page, t)
    \/ \E t \in client[Page].tasks : AddIceCandidate(Page, t)
    \/ IceCandidate(Page)

PageSpec == CallInit /\ [][PageNext]_vars

\* -------------------------------------------------- reading last and out

\* What each delivered message carries, without the channel it came by.
Delivered == {<<m.to, m.ev, m.id, m.data>> : m \in out}

\* The connections that got a message of event ev from the last handler.
Receivers(ev) == {m.to : m \in {x \in out : x.ev = ev}}

\* The last handler was a well-formed signal event.
RelayedSignal ==
    last.kind = "signal" /\ last.roomId # None /\ last.data # None

\* ---------------------------------------------------------------- claims

\* C1: a signal from connected a with non-empty roomId and data and with
\* targetId = b, a connected connection, is delivered exactly once, to b, as
\* {from: a, data: X}, and to no other connection.
C1_TargetedSignalOnlyToTarget ==
    (/\ RelayedSignal
     /\ last.targetId \in Conns
     /\ status[last.targetId] = "connected")
    => Delivered = {<<last.targetId, "signal", last.conn, last.data>>}

\* C2: a signal from a with non-empty roomId r and data and no targetId is
\* delivered as {from: a, data: X} to exactly the registry members of r
\* other than a.
C2_UntargetedSignalToMembers ==
    (RelayedSignal /\ last.targetId = None)
    => Delivered = {<<s, "signal", last.conn, last.data>> :
                      s \in Members(rooms, last.roomId) \ {last.conn}}

\* C3: leave(r) by a connection that is not a member of r delivers no
\* message and leaves the registry unchanged.
C3_LeaveByNonMemberIsSilent ==
    (/\ last.kind = "leave"
     /\ last.roomId # None
     /\ last.conn \notin Members(last.rooms, last.roomId))
    => (out = {} /\ rooms = last.rooms)

\* C4: when c disconnects, c is removed from every room it was a member of;
\* each such room left empty is deleted; in each such room that keeps
\* members, every remaining member gets exactly one peer-left carrying c.
C4_DisconnectCleansEveryRoom ==
    last.kind = "disconnect"
    => \A r \in {x \in DOMAIN last.rooms : last.conn \in last.rooms[x]} :
         /\ last.conn \notin Members(rooms, r)
         /\ last.rooms[r] = {last.conn} => ~Has(rooms, r)
         /\ \A s \in last.rooms[r] \ {last.conn} :
              Cardinality({m \in out : /\ m.to = s
                                       /\ m.ev = "peer-left"
                                       /\ m.via = r
                                       /\ m.id = last.conn}) = 1

\* C5: in every reachable state the member set of each registry room r is
\* exactly the set of connected connections whose latest join(r) was not
\* followed by their leave(r); no room lists a disconnected connection.
C5_RegistryIsExact ==
    \A r \in RoomIds :
        Members(rooms, r) = {c \in Conns : status[c] = "connected" /\ r \in joined[c]}

\* C6: every room id that is a key of the registry maps to a member set
\* with at least one element.
C6_NoEmptyRoom == \A r \in DOMAIN rooms : rooms[r] # {}

\* C6 witness: a leave or disconnect took the last member out of a room and
\* the room is gone.
C6_Witness ==
    /\ last.kind \in {"leave", "disconnect"}
    /\ \E r \in DOMAIN last.rooms :
          last.rooms[r] = {last.conn} /\ ~Has(rooms, r)

\* C7: join(r) by c with non-empty r sends exactly one room-info, to c only,
\* whose peers are the members r had before the join, without c.
C7_JoinSnapshot ==
    (last.kind = "join" /\ last.roomId # None)
    => {<<m.to, m.peers>> : m \in {x \in out : x.ev = "room-info"}}
         = {<<last.conn, Members(last.rooms, last.roomId) \ {last.conn}>>}

\* C7 witness: b joined a room where a was, and b's room-info lists a.
C7_Witness ==
    /\ last.kind = "join"
    /\ \E m \in out : m.ev = "room-info" /\ m.to = last.conn /\ m.peers # {}
    /\ last.conn \notin Members(last.rooms, last.roomId)

\* C8: join(r) by c delivers peer-joined carrying c to every other current
\* member of r, to no connection that is not a member of r, and not to c.
C8_PeerJoinedToMembers ==
    (last.kind = "join" /\ last.roomId # None)
    => /\ Receivers("peer-joined") = Members(rooms, last.roomId) \ {last.conn}
       /\ \A m \in out : m.ev = "peer-joined" => m.id = last.conn

\* C9: leave(r) by a member c removes c from r; if members remain, exactly
\* they get one peer-left carrying c; if none remains, the room is deleted
\* and nothing is delivered.
C9_LeaveByMember ==
    (/\ last.kind = "leave"
     /\ last.roomId # None
     /\ last.conn \in Members(last.rooms, last.roomId))
    => LET rest == last.rooms[last.roomId] \ {last.conn}
       IN  /\ last.conn \notin Members(rooms, last.roomId)
           /\ IF rest # {}
              THEN Delivered = {<<s, "peer-left", last.conn, None>> : s \in rest}
              ELSE ~Has(rooms, last.roomId) /\ out = {}

\* C10: a room emptied by a leave or disconnect is no longer in the
\* registry, and the next join to its id gets a room-info with no peers and
\* causes no peer-joined.
C10_FreshRoomAfterEmptying ==
    /\ \A r \in emptied : ~Has(rooms, r)
    /\ (last.kind = "join" /\ last.roomId \in last.emptied)
       => /\ \A m \in out : m.ev = "room-info" => m.peers = {}
          /\ Receivers("peer-joined") = {}

\* C11: a join with a falsy roomId, a signal whose envelope has a falsy
\* roomId or a falsy data, and a leave with a falsy roomId complete without
\* error, leave the registry unchanged and deliver no message.
C11_MalformedInputIsIgnored ==
    (\/ last.kind \in {"join", "leave"} /\ last.roomId = None
     \/ last.kind = "signal" /\ (last.roomId = None \/ last.data = None))
    => (~crashed /\ rooms = last.rooms /\ out = {})

\* C11 witness: a signal with a target and a payload but no roomId was
\* dropped while the target was connected.
C11_Witness ==
    /\ last.kind = "signal"
    /\ last.roomId = None
    /\ last.data # None
    /\ last.targetId \in Conns
    /\ status[last.targetId] = "connected"
    /\ out = {}

\* C12: no sequence of client events drives the relay into an error state,
\* a signal event without an envelope object included.
C12_NoFatalError == ~crashed

\* C13: every signal message delivered carries the data of the inbound
\* signal event that caused it and, as from, the id of the connection that
\* sent that event.
C13_OpaquePayloadAuthenticSender ==
    \A m \in out :
        m.ev = "signal"
        => (last.kind = "signal" /\ m.data = last.data /\ m.id = last.conn)

\* C13 witness: a signal was relayed to a connection other than its sender.
C13_Witness ==
    /\ last.kind = "signal"
    /\ \E m \in out : m.ev = "signal" /\ m.to # last.conn

\* C14: a signal with non-empty roomId and data whose targetId names a
\* connected connection b is delivered to b, whatever the room membership
\* of the sender and of b and whether or not the room exists.
C14_TargetedDeliveryIgnoresMembership ==
    (/\ RelayedSignal
     /\ last.targetId \in Conns
     /\ status[last.targetId] = "connected")
    => <<last.targetId, "signal", last.conn, last.data>> \in Delivered

\* C15: join(r) by a connection that is already a member of r leaves the
\* registry as it was, and its room-info lists exactly the current members
\* of r other than the joiner.
C15_RejoinIsIdempotent ==
    (/\ last.kind = "join"
     /\ last.roomId # None
     /\ last.conn \in Members(last.rooms, last.roomId))
    => /\ rooms = last.rooms
       /\ {<<m.to, m.peers>> : m \in {x \in out : x.ev = "room-info"}}
            = {<<last.conn, Members(rooms, last.roomId) \ {last.conn}>>}

\* C15 witness: a member joined again a room that has another member.
C15_Witness ==
    /\ last.kind = "join"
    /\ last.conn \in Members(last.rooms, last.roomId)
    /\ Members(last.rooms, last.roomId) # {last.conn}

\* C16: a signal event, relayed or dropped, leaves the set of rooms and
\* every member set as they were; only join, leave and disconnect change
\* the registry.
C16_SignalLeavesRegistry ==
    /\ last.kind \in {"signal", "signal-no-envelope"} => rooms = last.rooms
    /\ rooms # last.rooms => last.kind \in {"join", "leave", "disconnect"}

\* C16 witness: a signal was relayed to the other member of an existing room.
C16_Witness ==
    /\ RelayedSignal
    /\ last.targetId = None
    /\ Has(rooms, last.roomId)
    /\ out # {}

\* The peer-left messages of the last handler that came by room r.
PeerLeftVia(r) == {m \in out : m.ev = "peer-left" /\ m.via = r}

\* C17: once c has left room r as a member and has not rejoined it, no
\* later event of c (its disconnect included) delivers a peer-left for c
\* by r; the leave itself gives every connected remaining member of r
\* exactly one peer-left carrying c.
C17_NoDuplicateDepartureNotice ==
    /\ last.kind \in {"leave", "disconnect"}
       => \A r \in last.left[last.conn] : PeerLeftVia(r) = {}
    /\ (/\ last.kind = "leave"
        /\ last.conn \in Members(last.rooms, last.roomId))
       => \A s \in Members(last.rooms, last.roomId) \ {last.conn} :
            status[s] = "connected"
            => Cardinality({m \in PeerLeftVia(last.roomId) :
                              m.to = s /\ m.id = last.conn}) = 1

\* C18: a targeted signal whose targetId names no connected connection
\* delivers no message, raises no error and leaves the registry unchanged;
\* no handler other than that of a signal event delivers a signal.
C18_UndeliverableIsDropped ==
    /\ (/\ last.kind = "signal"
        /\ last.targetId # None
        /\ ~(last.targetId \in Conns /\ status[last.targetId] = "connected"))
       => (out = {} /\ ~crashed /\ rooms = last.rooms)
    /\ last.kind # "signal" => Receivers("signal") = {}

\* C19: for every connected connection c and every room id r other than
\* c's own id, c is in the registry's member set of r exactly when r is in
\* socket.rooms of c.
C19_IndicesInSync ==
    \A c \in Conns : \A r \in RoomIds \ {c} :
        status[c] = "connected"
        => (c \in Members(rooms, r) <=> r \in socketRooms[c])

\* C19 witness: a member left a room that keeps another member, and is out
\* of both indices.
C19_Witness ==
    /\ last.kind = "leave"
    /\ last.roomId # last.conn
    /\ last.conn \in Members(last.rooms, last.roomId)
    /\ Has(rooms, last.roomId)
    /\ last.roomId \notin socketRooms[last.conn]

\* y joined, as the relay saw it, a room in which x already was.
JoinedAfter(x, y) ==
    /\ last.kind = "join"
    /\ last.conn = y
    /\ x \in Members(last.rooms, last.roomId) \ {y}

\* C20: if A joins r, then B joins r, and nobody leaves, then eventually A
\* has received an offer from B and B an answer from A, B has sent one offer
\* and A none; at no time has more than one offer been sent.
C20_HandshakeCompletes ==
    /\ \A x, y \in Callers :
         JoinedAfter(x, y)
           ~> (/\ <<"offer", y>> \in client[x].got
               /\ <<"answer", x>> \in client[y].got
               /\ client[y].offers = 1
               /\ client[x].offers = 0)
    /\ [](client[ConnOrder[1]].offers + client[ConnOrder[2]].offers <= 1)

\* C20 witness: both have what the handshake gives them.
C20_Witness ==
    \E x, y \in Callers :
        /\ x # y
        /\ <<"offer", y>> \in client[x].got
        /\ <<"answer", x>> \in client[y].got
        /\ client[y].offers = 1

\* ------------------------------------------------ reading the page's steps

\* The handler t of page c ends in the step: it returns, throws, or its
\* peer connection is closed under it.
EndsIn(c, t) == t \in client[c].tasks /\ \A u \in client'[c].tasks : u.id # t.id

\* The handlers the step starts.
StartedIn(c) == {t \in client'[c].tasks : t.id = client[c].seen}

\* The page handles a room-info in the step.
RoomInfoIn(c) == client'[c].owed < client[c].owed

\* The signals among the events the page emits in the step.
SignalsIn(c) == {e \in Emitted(c) : e.ev = "signal"}

\* The page calls leaveRoom in a room in the step.
LeaveRoomIn(c) == client'[c].leaves > client[c].leaves

\* When the handler t ends, the page is outside every room or leaveRoom
\* has closed its peer connection since t's message arrived.
HasLeft(c, t) == client'[c].currentRoomId = None \/ client'[c].closes > t.epoch

\* A room-info handler starts a call iff the list has a peer and there is
\* no peer connection, and then it is to call the first listed peer.
CallerRoleDecided(c) ==
    RoomInfoIn(c) =>
        /\ StartedIn(c) # {} <=> (Len(client'[c].peers) > 0 /\ ~client[c].peerConnection)
        /\ \A t \in StartedIn(c) : t.h = "room-info" /\ t.peer = client'[c].peers[1]

\* An offer is only sent by a room-info handler that ends.
OffersAreCalls(c) ==
    \A e \in SignalsIn(c) : e.data = "offer" =>
        \E t \in client[c].tasks : t.h = "room-info" /\ EndsIn(c, t)

AnswersAreResponses(c) ==
    \A e \in SignalsIn(c) : e.data = "answer" =>
        \E t \in client[c].tasks : t.h = "signal" /\ t.type = "offer" /\ EndsIn(c, t)

\* The handler of an answer or of a candidate ends without a signal.
OthersStaySilent(c) ==
    \A t \in client[c].tasks :
        t.h = "signal" /\ t.type \in {"answer", "candidate"} /\ EndsIn(c, t)
            => SignalsIn(c) = {}

C23_CandidateAfterRemoteDescription ==
    \A c \in Conns : \A t \in client[c].tasks : t.stage = "add" => t.rd # None

\* leaveRoom in a room emits 'leave' with that room and nothing else, and
\* clears the room and the peer connection.
LeaveRoomResets(c) ==
    LeaveRoomIn(c) =>
        /\ client[c].currentRoomId # None
        /\ Emitted(c) = {Emit("leave", client[c].currentRoomId, None, None)}
        /\ client'[c].currentRoomId = None
        /\ ~client'[c].peerConnection

\* C24: leaveRoom emits exactly one leave with the current room id when the
\* page is in a room, then clears the room and the peer connection; while
\* the room is unset the page emits no signal and a leaveRoom emits no
\* leave.
C24_LeaveResetsToUnjoined ==
    [][\A c \in Conns :
         /\ LeaveRoomResets(c)
         /\ \A e \in Emitted(c) : e.ev = "leave" => LeaveRoomIn(c)
         /\ client[c].currentRoomId = None =>
               /\ \A e \in Emitted(c) : e.ev \notin {"signal", "leave"}
               /\ client'[c].leaves = client[c].leaves]_vars

\* C24 witness: the page has left a room, 'leave' went out once, and a
\* handler has since set a local description on a new peer connection
\* while there is no current room.
C24_Witness ==
    /\ client[Page].leaves >= 1
    /\ client[Page].currentRoomId = None
    /\ client[Page].localDescription # None
    /\ Cardinality({i \in DOMAIN toServer[Page] : toServer[Page][i].ev = "leave"}) = 1
    /\ \A i \in DOMAIN toServer[Page] : toServer[Page][i].ev # "signal"

====
